---------------------------- MODULE Spec2Model ----------------------------
(***************************************************************************)
(* Repository_Scaner: the markdown pipeline of main.py (tree rendering,    *)
(* content document, generate_markdowns with its temporary clone), the     *)
(* command-line entry point main, and the scan handler of app.py.          *)
(*                                                                         *)
(* Three specifications share the module:                                  *)
(*   Spec        generate_markdowns and its three callers (a direct        *)
(*               caller, main(), the Streamlit scan button)                *)
(*   SpecTree    DirectoryStructureScanner.generate_tree on bounded        *)
(*               directory trees, listed by iterdir in arbitrary order     *)
(*   SpecContent MarkdownGenerator._create_content_markdown on bounded     *)
(*               lists of FileInfo                                         *)
(***************************************************************************)
EXTENDS Integers, Sequences, FiniteSets, TLC

VARIABLES
    \* ---- pipeline (Spec) ----
    fs,          \* the filesystem: path -> "absent" | "dir" | "file"
    gen,         \* the MarkdownGenerator instance in use (NoGen before any)
    pc,          \* where control is
    caller,      \* who called generate_markdowns: "none"|"direct"|"cli"|"app"
    call,        \* bookkeeping of the current / most recent call
    hist,        \* counters over the whole run (mkdtemp, rmtree)
    cli,         \* the most recent run of main()
    session,     \* st.session_state of the interactive surface
    app,         \* bookkeeping of the scan handler
    \* ---- generate_tree (SpecTree) ----
    tree,        \* the directory tree under the root: set of nodes
    root,        \* root_path: its name ("" for a root such as "/") and its string
    treeOut,     \* output of the most recent generate_tree on this tree (<<>>: none)
    treePrev,    \* output of the run before it on the same tree (<<>>: none)
    \* ---- _create_content_markdown (SpecContent) ----
    files,       \* the list of FileInfo handed to the assembler
    contentOut   \* the document built from it: [built, text]

pipeVars == <<fs, gen, pc, caller, call, hist, cli, session, app>>
treeVars == <<tree, root, treeOut, treePrev>>
contVars == <<files, contentOut>>
vars == <<fs, gen, pc, caller, call, hist, cli, session, app,
          tree, root, treeOut, treePrev, files, contentOut>>

None == "None"

\* "no document": session_state fields start as None; documents are named by
\* the number of the call that produced them
NoDoc == 0

(***************************************************************************)
(* Bounds                                                                  *)
(***************************************************************************)
MaxCalls == 3
MaxEntries == 3
MaxDepth == 2
MaxFiles == 3

(***************************************************************************)
(* Target specifications, as token sequences: a scheme or leading          *)
(* separator, then the remaining pieces of the string.                     *)
(***************************************************************************)
UrlGithub      == <<"https://", "github.com", "/u/r.git">>
UrlOther       == <<"https://", "gitlab.com", "/u/r">>
LocalDir       == <<"/", "work", "/repo">>
LocalGithubDir == <<"/", "github.com", "/repo">>
LocalFile      == <<"/", "work", "/notes.txt">>
LocalMissing   == <<"/", "work", "/nowhere">>

Targets == {UrlGithub, UrlOther, LocalDir, LocalGithubDir, LocalFile, LocalMissing}

TmpNames == {<<"/tmp/", "tmpA">>, <<"/tmp/", "tmpB">>}

Paths == (Targets \ {UrlGithub}) \cup TmpNames

\* target_path.startswith(('http://', 'https://')) and 'github.com' in target_path
IsGithubAnywhere(t) == \E i \in 1..Len(t) : t[i] = "github.com"

IsGithub(t) ==
    /\ t[1] \in {"http://", "https://"}
    /\ \E i \in 1..Len(t) : t[i] = "github.com"

NoGen == [target |-> None, temp_dir |-> None, is_github |-> FALSE]

\* MarkdownGenerator.__init__
NewGenerator(t) == [target |-> t, temp_dir |-> None, is_github |-> IsGithub(t)]

Exists(f, p) == p \in DOMAIN f /\ f[p] # "absent"

InitFs ==
    [p \in Paths |->
        IF p \in {LocalDir, LocalGithubDir} THEN "dir"
        ELSE IF p = LocalFile THEN "file"
        ELSE "absent"]

NoCall == [id |-> 0, created |-> None, exit |-> None, treeStarted |-> FALSE,
           scanStarted |-> FALSE, fsAtCall |-> InitFs, rmAtCall |-> 0,
           cleanup |-> None, result |-> NoDoc]

NoCli == [argv |-> <<>>, genCreated |-> FALSE, written |-> {}, returned |-> FALSE,
          exit |-> 0,
          error |-> FALSE, callExit |-> None, fsAtStart |-> InitFs,
          fsAtEnd |-> InitFs]

NoSession == [repo_content |-> NoDoc, structure_md |-> NoDoc, content_md |-> NoDoc]

NoApp == [atScan |-> NoSession, lastGenerated |-> NoDoc, lastFormatted |-> NoDoc,
          errorShown |-> FALSE, outcome |-> None]


(***************************************************************************)
(* generate_markdowns (main.py 49-78), one action per step of its body     *)
(***************************************************************************)
NoHist == [calls |-> 0, created |-> 0, deleted |-> 0, rmAbsent |-> 0]

\* work_dir: the temporary clone for a remote target, the given path otherwise
WorkDir(g) == IF g.is_github THEN g.temp_dir ELSE g.target

\* line 58: "if not work_dir.exists(): raise ValueError"
LocalPathOk(f, p) == Exists(f, p)

\* the finally clause run only when the body completed
FinallyGuardOnSuccessOnly(g, f) ==
    /\ call.exit = "success"
    /\ g.is_github /\ g.temp_dir # None /\ Exists(f, g.temp_dir)

\* the finally clause without the exists() test
FinallyGuardNoExists(g, f) == g.is_github /\ g.temp_dir # None

\* line 76: self.is_github and self.temp_dir and Path(self.temp_dir).exists()
FinallyGuard(g, f) == g.is_github /\ g.temp_dir # None /\ Exists(f, g.temp_dir)

\* entry of generate_markdowns: a fresh call record
BeginCall(who) ==
    /\ hist.calls < MaxCalls
    /\ hist' = [hist EXCEPT !.calls = @ + 1]
    /\ call' = [NoCall EXCEPT !.id = hist.calls + 1, !.fsAtCall = fs,
                              !.rmAtCall = hist.deleted + hist.rmAbsent]
    /\ caller' = who
    /\ pc' = "acquire"

\* an exception leaves the try body: control goes to the finally clause
Raise(where) ==
    /\ call' = [call EXCEPT !.exit = where]
    /\ pc' = "finally"

\* lines 52-53 and 56-59
Acquire ==
    /\ pc = "acquire"
    /\ IF gen.is_github
       THEN \/ \* mkdtemp raises: nothing was created, temp_dir keeps its old value
               /\ Raise("mkdtemp")
               /\ UNCHANGED <<fs, gen, hist>>
            \/ \* mkdtemp creates a directory that did not exist
               \E d \in TmpNames :
                 /\ ~Exists(fs, d)
                 /\ fs' = [fs EXCEPT ![d] = "dir"]
                 /\ gen' = [gen EXCEPT !.temp_dir = d]
                 /\ hist' = [hist EXCEPT !.created = @ + 1]
                 /\ call' = [call EXCEPT !.created = d]
                 /\ pc' = "clone"
       ELSE /\ IF LocalPathOk(fs, gen.target)
               THEN pc' = "tree" /\ call' = call
               ELSE Raise("not_found")
            /\ UNCHANGED <<fs, gen, hist>>
    /\ UNCHANGED <<caller, cli, session, app>>

\* lines 54-55: git.Repo.clone_from into the temporary directory
Clone ==
    /\ pc = "clone"
    /\ \/ pc' = "tree" /\ call' = call
       \/ Raise("clone")
    /\ UNCHANGED <<fs, gen, hist, caller, cli, session, app>>

\* lines 62-63: generate_tree on work_dir; iterdir raises on a non-directory
TreeStep ==
    /\ pc = "tree"
    /\ IF fs[WorkDir(gen)] = "dir"
       THEN \/ pc' = "scan" /\ call' = [call EXCEPT !.treeStarted = TRUE]
            \/ /\ call' = [call EXCEPT !.treeStarted = TRUE, !.exit = "tree"]
               /\ pc' = "finally"
       ELSE /\ call' = [call EXCEPT !.treeStarted = TRUE, !.exit = "tree"]
            /\ pc' = "finally"
    /\ UNCHANGED <<fs, gen, hist, caller, cli, session, app>>

\* lines 66-67: FileScanner(work_dir, extensions).scan_files()
ScanStep ==
    /\ pc = "scan"
    /\ \/ pc' = "assemble" /\ call' = [call EXCEPT !.scanStarted = TRUE]
       \/ /\ call' = [call EXCEPT !.scanStarted = TRUE, !.exit = "scan"]
          /\ pc' = "finally"
    /\ UNCHANGED <<fs, gen, hist, caller, cli, session, app>>

\* lines 70-73: the two documents, then "return content_md, structure_md, files"
Assemble ==
    /\ pc = "assemble"
    /\ \/ /\ call' = [call EXCEPT !.exit = "success", !.result = call.id]
          /\ pc' = "finally"
       \/ Raise("assemble")
    /\ UNCHANGED <<fs, gen, hist, caller, cli, session, app>>

\* lines 75-78: the finally clause, then control is back at the caller
Finally ==
    /\ pc = "finally"
    /\ IF FinallyGuard(gen, fs)
       THEN IF Exists(fs, gen.temp_dir)
            THEN /\ fs' = [fs EXCEPT ![gen.temp_dir] = "absent"]
                 /\ hist' = [hist EXCEPT !.deleted = @ + 1]
                 /\ call' = [call EXCEPT !.cleanup = "deleted"]
            ELSE \* shutil.rmtree of a missing path raises FileNotFoundError
                 /\ fs' = fs
                 /\ hist' = [hist EXCEPT !.rmAbsent = @ + 1]
                 /\ call' = [call EXCEPT !.cleanup = "raised", !.exit = "cleanup",
                                         !.result = NoDoc]
       ELSE /\ fs' = fs
            /\ hist' = hist
            /\ call' = [call EXCEPT !.cleanup =
                          IF gen.is_github /\ gen.temp_dir # None
                          THEN "skipped_absent" ELSE "skipped"]
    /\ pc' = "returned"
    /\ UNCHANGED <<gen, caller, cli, session, app>>

(***************************************************************************)
(* A direct caller of the class: construct, then call, possibly again      *)
(***************************************************************************)
Construct ==
    /\ pc = "idle"
    /\ \E t \in Targets : gen' = NewGenerator(t)
    /\ UNCHANGED <<fs, pc, caller, call, hist, cli, session, app>>

DirectCall ==
    /\ pc = "idle"
    /\ gen # NoGen
    /\ BeginCall("direct")
    /\ UNCHANGED <<fs, gen, cli, session, app>>

DirectReturn ==
    /\ pc = "returned" /\ caller = "direct"
    /\ pc' = "idle" /\ caller' = "none"
    /\ UNCHANGED <<fs, gen, call, hist, cli, session, app>>

(***************************************************************************)
(* main() (main.py 107-140)                                                *)
(***************************************************************************)
ArgLists ==
    {<<>>} \cup {<<t>> : t \in Targets} \cup {<<UrlGithub, LocalDir>>}

\* the argument check reading "fewer than two"
ArgvOkAtLeast(argv) == Len(argv) >= 2

\* line 108: len(sys.argv) != 2 is the usage error
ArgvOk(argv) == Len(argv) = 2

\* lines 108-118: usage error, or construct the generator and call it
MainStart ==
    /\ pc = "idle"
    /\ \E args \in ArgLists :
         LET argv == <<"main.py">> \o args IN
         IF ~ArgvOk(argv)
         THEN /\ cli' = [NoCli EXCEPT !.argv = argv, !.returned = TRUE, !.exit = 1,
                                      !.fsAtStart = fs,
                                      !.fsAtEnd = fs]
              /\ UNCHANGED <<fs, gen, pc, caller, call, hist>>
         ELSE /\ cli' = [NoCli EXCEPT !.argv = argv, !.genCreated = TRUE,
                                      !.fsAtStart = fs]
              /\ gen' = NewGenerator(argv[2])
              /\ BeginCall("cli")
              /\ fs' = fs
    /\ UNCHANGED <<session, app>>

\* lines 118-140: the two files are written, or the exception is caught
MainFinish ==
    /\ pc = "returned" /\ caller = "cli"
    /\ LET done == [cli EXCEPT !.returned = TRUE, !.callExit = call.exit,
                            !.fsAtEnd = fs] IN
       IF call.exit # "success"
       THEN cli' = [done EXCEPT !.exit = 1, !.error = TRUE]
       ELSE \/ cli' = [done EXCEPT !.written = {"content", "structure"}, !.exit = 0]
            \/ \* open/write of the content file raises
               cli' = [done EXCEPT !.exit = 1, !.error = TRUE]
            \/ \* open/write of the structure file raises
               cli' = [done EXCEPT !.written = {"content"}, !.exit = 1, !.error = TRUE]
    /\ pc' = "idle" /\ caller' = "none"
    /\ UNCHANGED <<fs, gen, call, hist, session, app>>

(***************************************************************************)
(* The scan button of app.py (122-147)                                     *)
(***************************************************************************)
\* the handler clearing the stored documents when a scan fails
SessionOnErrorCleared(s) == NoSession

\* lines 146-147: the except clause only shows the message
SessionOnError(s) == s

\* lines 122-135: the button is enabled for a non-empty repo_url
ScanStart ==
    /\ pc = "idle"
    /\ \E url \in Targets : gen' = NewGenerator(url)
    /\ BeginCall("app")
    /\ app' = [app EXCEPT !.atScan = session, !.errorShown = FALSE, !.outcome = None]
    /\ UNCHANGED <<fs, cli, session>>

\* lines 135-147
ScanFinish ==
    /\ pc = "returned" /\ caller = "app"
    /\ IF call.exit # "success"
       THEN /\ session' = SessionOnError(session)
            /\ app' = [app EXCEPT !.errorShown = TRUE, !.outcome = "generate_raised"]
       ELSE \/ /\ session' = [content_md |-> call.id, structure_md |-> call.id,
                              repo_content |-> call.id]
               /\ app' = [app EXCEPT !.lastGenerated = call.id,
                                     !.lastFormatted = call.id, !.outcome = "stored"]
            \/ \* LLMService.format_code_content raises after two assignments
               /\ session' = [session EXCEPT !.content_md = call.id,
                                             !.structure_md = call.id]
               /\ app' = [app EXCEPT !.lastGenerated = call.id, !.errorShown = TRUE,
                                     !.outcome = "format_raised"]
    /\ pc' = "idle" /\ caller' = "none"
    /\ UNCHANGED <<fs, gen, call, hist, cli>>

(***************************************************************************)
(* DirectoryStructureScanner.generate_tree (main.py 15-38)                 *)
(*                                                                         *)
(* Names are sequences of code points, so that sorted() and startswith()   *)
(* are computed on the characters.  An output is a sequence of lines; a    *)
(* line is its prefix (a sequence of the two four-character pads), its     *)
(* connector and the name printed after it.                                *)
(***************************************************************************)
NameHidden  == <<46, 103>>                                      \* ".g"
NamePycache == <<95, 95, 112, 121, 99, 97, 99, 104, 101, 95, 95>> \* "__pycache__"
NameA       == <<97>>                                           \* "a"
NameUpperB  == <<66>>                                           \* "B"

Names == {NameHidden, NamePycache, NameA, NameUpperB}

Kinds == {"dir", "file", "other"}

\* root_path: "/" (whose name is empty) or "/r"
Roots == {[name |-> <<>>, str |-> <<47>>], [name |-> <<114>>, str |-> <<47, 114>>]}

ConnLast == "LAST"   \* the terminal connector, U+2514 U+2500 U+2500 and a space
ConnMid  == "MID"    \* the continuation connector, U+251C U+2500 U+2500 and a space
PadBlank == "    "   \* four spaces
PadBar   == "|   "   \* U+2502 and three spaces

Line(prefix, conn, name) == [prefix |-> prefix, conn |-> conn, name |-> name]

\* the listing orders iterdir may produce: every permutation of the names
Orders ==
    {o \in [1..Cardinality(Names) -> Names] :
        \A i, j \in 1..Cardinality(Names) : i # j => o[i] # o[j]}

Front(q) == SubSeq(q, 1, Len(q) - 1)
Last(q) == q[Len(q)]

Children(t, p) == {n \in t : Len(n.path) = Len(p) + 1 /\ Front(n.path) = p}

\* list(path.iterdir()): the children, in the order the listing gives them
Iterdir(t, p, order) ==
    LET here(nm) == \E n \in Children(t, p) : Last(n.path) = nm
        present == SelectSeq(order, here)
    IN  [i \in 1..Len(present) |->
            CHOOSE n \in Children(t, p) : Last(n.path) = present[i]]

\* str < str: by code point, a proper prefix first
RECURSIVE NameLess(_, _)
NameLess(a, b) ==
    IF b = <<>> THEN FALSE
    ELSE IF a = <<>> THEN TRUE
    ELSE IF a[1] # b[1] THEN a[1] < b[1]
    ELSE NameLess(Tail(a), Tail(b))

\* Path < Path: the parts compared as a list
RECURSIVE PartsLess(_, _)
PartsLess(a, b) ==
    IF b = <<>> THEN FALSE
    ELSE IF a = <<>> THEN TRUE
    ELSE IF a[1] # b[1] THEN NameLess(a[1], b[1])
    ELSE PartsLess(Tail(a), Tail(b))

\* the listing used as it comes
Unsorted(q) == q

\* sorted(): insertion into the sorted tail
RECURSIVE Sorted(_)
Sorted(q) ==
    IF q = <<>> THEN q
    ELSE LET x == Head(q)
             rest == Sorted(Tail(q))
             before(y) == PartsLess(y.path, x.path)
             after(y) == ~PartsLess(y.path, x.path)
         IN  SelectSeq(rest, before) \o <<x>> \o SelectSeq(rest, after)

StartsWithDot(name) == Len(name) > 0 /\ name[1] = 46

\* line 25: not d.name.startswith('.') and d.name != '__pycache__'
KeepDir(n) == ~StartsWithDot(Last(n.path)) /\ Last(n.path) # NamePycache

\* line 26: not f.name.startswith('.')
KeepFile(n) == ~StartsWithDot(Last(n.path))

\* str(path)
RECURSIVE PathStr(_, _)
PathStr(r, p) ==
    IF p = <<>> THEN r.str
    ELSE LET up == PathStr(r, Front(p))
         IN  (IF up = <<47>> THEN up ELSE up \o <<47>>) \o Last(p)

PathName(r, p) == IF p = <<>> THEN r.name ELSE Last(p)

\* the name alone, whatever it is
DisplayNameOnly(r, p) == PathName(r, p)

\* line 19: path.name or str(path)
DisplayName(r, p) == IF PathName(r, p) # <<>> THEN PathName(r, p) ELSE PathStr(r, p)

\* line 19 and 36: "LAST if is_last else MID"
Connector(is_last) == IF is_last THEN ConnLast ELSE ConnMid

\* line 28: prefix + ("    " if is_last else "|   ")
NextPrefix(prefix, is_last) == prefix \o <<IF is_last THEN PadBlank ELSE PadBar>>

\* the last subdirectory taken for the last entry whatever files follow
IsLastEntryDirsOnly(i, dirs, fls) == i = Len(dirs)

\* line 31: (i == len(dirs) - 1) and not files
IsLastEntry(i, dirs, fls) == i = Len(dirs) /\ fls = <<>>

\* lines 34-36
FileLines(fls, next_prefix) ==
    [i \in 1..Len(fls) |->
        Line(next_prefix, Connector(i = Len(fls)), Last(fls[i].path))]

RECURSIVE GenerateTree(_, _, _, _, _, _)
RECURSIVE DirsOutput(_, _, _, _, _, _, _)

\* lines 30-32: the loop over the subdirectories, from the i-th on
DirsOutput(t, r, dirs, fls, i, next_prefix, order) ==
    IF i > Len(dirs) THEN <<>>
    ELSE GenerateTree(t, r, dirs[i].path, next_prefix,
                      IsLastEntry(i, dirs, fls), order)
         \o DirsOutput(t, r, dirs, fls, i + 1, next_prefix, order)

\* lines 15-38
GenerateTree(t, r, path, prefix, is_last, order) ==
    LET output == <<Line(prefix, Connector(is_last), DisplayName(r, path))>>
        entries == Iterdir(t, path, order)
        isDir(n) == n.kind = "dir"
        isFile(n) == n.kind = "file"
        dirs == SelectSeq(Sorted(SelectSeq(entries, isDir)), KeepDir)
        fls == SelectSeq(Sorted(SelectSeq(entries, isFile)), KeepFile)
        next_prefix == NextPrefix(prefix, is_last)
    IN  output
        \o DirsOutput(t, r, dirs, fls, 1, next_prefix, order)
        \o FileLines(fls, next_prefix)

\* the filesystem gains an entry under the root (between two scans)
AddEntry ==
    /\ Cardinality(tree) < MaxEntries
    /\ \E parent \in {<<>>} \cup {n.path : n \in {m \in tree : m.kind = "dir"}} :
       \E nm \in Names, k \in Kinds :
         /\ Len(parent) < MaxDepth
         /\ ~\E n \in tree : n.path = parent \o <<nm>>
         /\ tree' = tree \cup {[path |-> parent \o <<nm>>, kind |-> k]}
    /\ treeOut' = <<>> /\ treePrev' = <<>>
    /\ root' = root

\* DirectoryStructureScanner(root).generate_tree(): path=None, prefix="", is_last=True.
\* The last two outputs on a tree are kept; a third run would add no state.
Render ==
    /\ treePrev = <<>>
    /\ \E order \in Orders :
         treeOut' = GenerateTree(tree, root, <<>>, <<>>, TRUE, order)
    /\ treePrev' = treeOut
    /\ UNCHANGED <<tree, root>>

(***************************************************************************)
(* MarkdownGenerator._create_content_markdown (main.py 89-99)              *)
(*                                                                         *)
(* A FileInfo is its path and its content; the content is <<>> for None    *)
(* and <<text>> otherwise.  The document is the sequence of the strings    *)
(* the loop appends.                                                       *)
(***************************************************************************)
FilePaths == {"a/x.py", "b.md"}

MarkerText == "# Failed to read content"

Contents == {<<>>, <<"">>, <<"x = 1">>, <<MarkerText>>}

FileInfos == [path : FilePaths, content : Contents]

NotBuilt == [built |-> FALSE, text |-> <<>>]

\* "if file.content:" -- the truth value instead of the test for None
HasContentTruthy(f) == f.content # <<>> /\ f.content[1] # ""

\* line 94: file.content is not None
HasContent(f) == f.content # <<>>

\* lines 92-98: what one iteration appends
Subsection(f) ==
    <<"## ", f.path, "\n", "------------\n">>
    \o <<IF HasContent(f) THEN f.content[1] ELSE MarkerText>>
    \o <<"\n\n">>

\* lines 90-99: content = ""; for file in files: content += ...
RECURSIVE ContentLoop(_, _, _)
ContentLoop(fls, i, content) ==
    IF i > Len(fls) THEN content
    ELSE ContentLoop(fls, i + 1, content \o Subsection(fls[i]))

CreateContentMarkdown(fls) == ContentLoop(fls, 1, <<>>)

\* the scanner hands over one more entry
AppendFile ==
    /\ Len(files) < MaxFiles
    /\ \E f \in FileInfos : files' = Append(files, f)
    /\ contentOut' = NotBuilt

\* content_md = self._create_content_markdown(files)
CreateContent ==
    /\ ~contentOut.built
    /\ contentOut' = [built |-> TRUE, text |-> CreateContentMarkdown(files)]
    /\ files' = files

(***************************************************************************)
(* Spec: the pipeline and its callers                                      *)
(***************************************************************************)
TreeIdle == tree = {} /\ root \in Roots /\ treeOut = <<>> /\ treePrev = <<>>

ContentIdle == files = <<>> /\ contentOut = NotBuilt

PipeIdle ==
    /\ fs = InitFs /\ gen = NoGen /\ pc = "idle" /\ caller = "none"
    /\ call = NoCall /\ hist = NoHist /\ cli = NoCli
    /\ session = NoSession /\ app = NoApp

Init == PipeIdle /\ TreeIdle /\ ContentIdle /\ root.name = <<>>

Next ==
    \/ Construct /\ UNCHANGED <<treeVars, contVars>>
    \/ DirectCall /\ UNCHANGED <<treeVars, contVars>>
    \/ DirectReturn /\ UNCHANGED <<treeVars, contVars>>
    \/ Acquire /\ UNCHANGED <<treeVars, contVars>>
    \/ Clone /\ UNCHANGED <<treeVars, contVars>>
    \/ TreeStep /\ UNCHANGED <<treeVars, contVars>>
    \/ ScanStep /\ UNCHANGED <<treeVars, contVars>>
    \/ Assemble /\ UNCHANGED <<treeVars, contVars>>
    \/ Finally /\ UNCHANGED <<treeVars, contVars>>
    \/ MainStart /\ UNCHANGED <<treeVars, contVars>>
    \/ MainFinish /\ UNCHANGED <<treeVars, contVars>>
    \/ ScanStart /\ UNCHANGED <<treeVars, contVars>>
    \/ ScanFinish /\ UNCHANGED <<treeVars, contVars>>

Spec == Init /\ [][Next]_vars

(***************************************************************************)
(* SpecTree: generate_tree on every bounded tree, in every listing order   *)
(***************************************************************************)
InitTree == PipeIdle /\ TreeIdle /\ ContentIdle

NextTree ==
    \/ AddEntry /\ UNCHANGED <<pipeVars, contVars>>
    \/ Render /\ UNCHANGED <<pipeVars, contVars>>

SpecTree == InitTree /\ [][NextTree]_vars

(***************************************************************************)
(* Properties of the pipeline                                              *)
(***************************************************************************)
LocalTargets == {UrlOther, LocalDir, LocalGithubDir, LocalFile, LocalMissing}

ExistingTmp == {d \in TmpNames : Exists(fs, d)}

AtCaller == pc \in {"returned", "idle"}

\* C1: for a remote target, whenever generate_markdowns has handed control
\* back to its caller, by return or by raising, on any exit path (mkdtemp or
\* clone failure, failure in tree rendering, scanning or assembly, success),
\* the temporary directory the call created no longer exists.
C1_TempDirGoneOnReturn ==
    /\ AtCaller => ExistingTmp = {}
    /\ (pc = "returned" /\ gen.target = UrlGithub) =>
          /\ call.exit \in {"mkdtemp", "clone", "tree", "scan", "assemble", "success"}
          /\ call.exit # "mkdtemp" => call.created # None
          /\ call.created # None => ~Exists(fs, call.created)

C1_Witness ==
    /\ pc = "returned" /\ gen.target = UrlGithub
    /\ call.exit = "clone"
    /\ call.created # None /\ ~Exists(fs, call.created)

\* C2: a call for a local target never creates a temporary directory and
\* never deletes anything: during and after the call the filesystem is the
\* one the call started with, whether the call succeeds or raises.
C2_LocalTargetUntouched ==
    (pc # "idle" /\ gen.target \in LocalTargets) =>
        /\ ~gen.is_github
        /\ fs = call.fsAtCall
        /\ call.created = None
        /\ hist.deleted + hist.rmAbsent = call.rmAtCall

C2_Witness ==
    /\ pc = "returned" /\ gen.target = LocalMissing
    /\ call.exit = "not_found" /\ call.result = NoDoc
    /\ fs = call.fsAtCall /\ ExistingTmp = {}

\* C3: over any sequence of calls, also repeated on one instance, every
\* temporary directory created is deleted exactly once: cleanup deletes a
\* directory that still exists, and when the directory recorded in temp_dir
\* is already absent it deletes nothing and raises nothing.
C3_DeletedExactlyOnce ==
    /\ hist.rmAbsent = 0
    /\ hist.deleted <= hist.created
    /\ hist.created - hist.deleted = Cardinality(ExistingTmp)
    /\ AtCaller => hist.deleted = hist.created
    /\ pc = "returned" =>
          /\ call.cleanup \in {"deleted", "skipped", "skipped_absent"}
          /\ (call.cleanup = "deleted") = (call.created # None)
          /\ hist.deleted + hist.rmAbsent
               = call.rmAtCall + (IF call.created # None THEN 1 ELSE 0)

C3_Witness ==
    /\ pc = "returned"
    /\ gen.temp_dir # None /\ call.created = None
    /\ call.cleanup = "skipped_absent"
    /\ hist.created >= 1 /\ hist.deleted = hist.created

\* C4: for a local target whose path is missing or is not a directory the
\* call fails with the acquisition error before tree rendering or content
\* scanning starts, and returns no documents.
C4_LocalAcquisitionChecksDirectory ==
    (pc = "returned" /\ gen.target \in LocalTargets /\ fs[gen.target] # "dir") =>
        /\ call.exit = "not_found"
        /\ ~call.treeStarted /\ ~call.scanStarted
        /\ call.result = NoDoc

\* C9: main returns 0 only after generate_markdowns succeeded and both files
\* were written, and 1 on every error; with an argument count other than one
\* it returns 1 without creating a generator or touching the filesystem.
C9_MainExitCode ==
    (pc = "idle" /\ cli.returned) =>
        /\ cli.exit \in {0, 1}
        /\ cli.exit = 0 =>
              /\ Len(cli.argv) = 2 /\ cli.genCreated
              /\ cli.callExit = "success"
              /\ cli.written = {"content", "structure"}
              /\ ~cli.error
        /\ (cli.error \/ cli.callExit \notin {None, "success"}) => cli.exit = 1
        /\ Len(cli.argv) # 2 =>
              /\ cli.exit = 1
              /\ ~cli.genCreated /\ cli.callExit = None
              /\ cli.written = {} /\ cli.fsAtEnd = cli.fsAtStart

C9_Witness ==
    /\ pc = "idle" /\ cli.returned /\ cli.exit = 0
    /\ cli.callExit = "success" /\ cli.written = {"content", "structure"}

\* C10: when generate_markdowns raises in a scan action the error is shown
\* and content_md, structure_md and repo_content keep their values; the
\* stored documents are those of the most recent scan whose generation
\* completed.
C10_SessionKeptOnError ==
    /\ (pc = "idle" /\ app.outcome = "generate_raised") =>
          /\ session = app.atScan
          /\ app.errorShown
    /\ session.content_md = app.lastGenerated
    /\ session.structure_md = app.lastGenerated
    /\ session.repo_content = app.lastFormatted

C10_Witness ==
    /\ pc = "idle" /\ app.outcome = "generate_raised"
    /\ app.atScan.content_md # NoDoc
    /\ session = app.atScan

(***************************************************************************)
(* SpecContent: the content document of every bounded list of entries      *)
(***************************************************************************)
NextContent ==
    \/ AppendFile /\ UNCHANGED <<pipeVars, treeVars>>
    \/ CreateContent /\ UNCHANGED <<pipeVars, treeVars>>

SpecContent == Init /\ [][NextContent]_vars

(***************************************************************************)
(* Properties of generate_tree, read off the output                        *)
(***************************************************************************)
Depth(ln) == Len(ln.prefix)

\* the root line first, and no line more than one level below the line before
WellFormed(out) ==
    /\ Len(out) >= 1 /\ Depth(out[1]) = 0
    /\ \A i \in 2..Len(out) : Depth(out[i]) >= 1 /\ Depth(out[i]) <= Depth(out[i - 1]) + 1

\* the line of the directory a line is listed under
ParentIdx(out, i) ==
    CHOOSE j \in 1..(i - 1) :
        /\ Depth(out[j]) = Depth(out[i]) - 1
        /\ \A k \in (j + 1)..(i - 1) : Depth(out[k]) >= Depth(out[i])

\* the path, below the root, of the entry a line stands for
RECURSIVE LinePath(_, _)
LinePath(out, i) ==
    IF i = 1 THEN <<>> ELSE LinePath(out, ParentIdx(out, i)) \o <<out[i].name>>

KindOf(t, p) == (CHOOSE n \in t : n.path = p).kind

\* a subdirectory or file that is to be shown: no part of its path starts
\* with '.', and no directory on it is named __pycache__
VisibleNode(n) ==
    /\ n.kind \in {"dir", "file"}
    /\ \A k \in 1..Len(n.path) :
          /\ n.path[k][1] # 46
          /\ (k < Len(n.path) \/ n.kind = "dir") => n.path[k] # NamePycache

VisiblePaths(t) == {n.path : n \in {m \in t : VisibleNode(m)}}

IsPrefix(p, q) == Len(p) <= Len(q) /\ SubSeq(q, 1, Len(p)) = p

\* C5: at each level every visible subdirectory, with its whole subtree,
\* comes before any file of the level; subdirectories and files are each in
\* lexicographic order; hidden entries, __pycache__ directories and what is
\* under them never appear; every visible entry appears exactly once; two
\* runs on the same tree give the same output whatever order iterdir lists in.
C5_TreeOrder ==
    treeOut # <<>> =>
      LET out == treeOut
          n == Len(out)
          P(i) == LinePath(out, i)
      IN  /\ WellFormed(out)
          /\ {P(i) : i \in 2..n} = VisiblePaths(tree)
          /\ n - 1 = Cardinality(VisiblePaths(tree))
          /\ \A i, j \in 2..n :
                (i < j /\ ParentIdx(out, i) = ParentIdx(out, j)) =>
                   /\ ~(KindOf(tree, P(i)) = "file" /\ KindOf(tree, P(j)) = "dir")
                   /\ KindOf(tree, P(i)) = KindOf(tree, P(j))
                         => NameLess(out[i].name, out[j].name)
          /\ \A j, k \in 2..n :
                (/\ KindOf(tree, P(j)) = "file"
                 /\ IsPrefix(Front(P(j)), P(k))
                 /\ Len(P(k)) > Len(P(j))) => k < j
          /\ treePrev # <<>> => treePrev = treeOut

C5_Witness ==
    /\ tree = {[path |-> <<NameA>>, kind |-> "dir"],
               [path |-> <<NameA, NameUpperB>>, kind |-> "file"],
               [path |-> <<NameUpperB>>, kind |-> "file"]}
    /\ root.name # <<>>
    /\ treePrev = treeOut
    /\ treeOut = <<Line(<<>>, ConnLast, root.name),
                   Line(<<PadBlank>>, ConnMid, NameA),
                   Line(<<PadBlank, PadBar>>, ConnLast, NameUpperB),
                   Line(<<PadBlank>>, ConnLast, NameUpperB)>>

\* C6: at every level with entries exactly one entry carries the terminal
\* connector, the last one emitted (a file if the level shows any file, the
\* last subdirectory otherwise), and every other one the continuation
\* connector; the lines under a directory extend its prefix by four spaces
\* if the directory's own line carries the terminal connector, by the bar
\* pad otherwise.
C6_Connectors ==
    treeOut # <<>> =>
      LET out == treeOut
          n == Len(out)
      IN  /\ WellFormed(out)
          /\ \A p \in 1..n :
                LET kids == {i \in 2..n : ParentIdx(out, i) = p} IN
                kids # {} =>
                  LET last == CHOOSE i \in kids : \A k \in kids : k <= i IN
                  /\ out[last].conn = ConnLast
                  /\ \A i \in kids \ {last} : out[i].conn = ConnMid
                  /\ \A i \in kids :
                        out[i].prefix = out[p].prefix \o
                            <<IF out[p].conn = ConnLast THEN PadBlank ELSE PadBar>>
                  /\ (\E i \in kids : KindOf(tree, LinePath(out, i)) = "file")
                        => KindOf(tree, LinePath(out, last)) = "file"

C6_Witness ==
    /\ treeOut # <<>>
    /\ \E i \in 2..Len(treeOut) :
          /\ treeOut[i].prefix = <<PadBlank, PadBar>>
          /\ treeOut[i].conn = ConnLast
          /\ treeOut[ParentIdx(treeOut, i)].conn = ConnMid

NoConn == ""

\* C7 as stated: the first line is the root's display name alone, with no
\* connector and no indentation.
C7_RootLineBare ==
    treeOut # <<>> =>
        treeOut[1] = Line(<<>>, NoConn,
                          IF root.name # <<>> THEN root.name ELSE root.str)

\* C7, amended: the first line is the terminal connector followed by the
\* root's display name (path.name, or the path string when the name is
\* empty), with no indentation before the connector.
C7_RootLineTerminal ==
    treeOut # <<>> =>
        treeOut[1] = Line(<<>>, ConnLast,
                          IF root.name # <<>> THEN root.name ELSE root.str)

C7_Witness ==
    /\ treeOut # <<>>
    /\ root.name = <<>>
    /\ treeOut[1].name = <<47>> /\ treeOut[1].conn = ConnLast

(***************************************************************************)
(* Properties of the content document                                      *)
(***************************************************************************)
\* C8: one subsection per entry, in the order of the list: the heading with
\* the entry's path, the separator line, the content (the marker text
\* exactly when the content is None; an empty string is content), the
\* spacer; nothing skipped, cut or reordered.
C8_ContentDocument ==
    contentOut.built =>
      LET out == contentOut.text IN
      /\ Len(out) = 6 * Len(files)
      /\ \A i \in 1..Len(files) :
            LET b == 6 * (i - 1) IN
            /\ out[b + 1] = "## " /\ out[b + 2] = files[i].path /\ out[b + 3] = "\n"
            /\ out[b + 4] = "------------\n"
            /\ files[i].content = <<>> => out[b + 5] = MarkerText
            /\ files[i].content # <<>> => out[b + 5] = files[i].content[1]
            /\ out[b + 6] = "\n\n"

C8_Witness ==
    /\ contentOut.built
    /\ Len(files) = 3
    /\ files[1].content = <<"">> /\ files[2].content = <<>>
    /\ files[3].content = <<"x = 1">>
    /\ contentOut.text[5] = "" /\ contentOut.text[11] = MarkerText

=============================================================================
